---- MODULE Spec2Model ----
(***************************************************************************)
(* A model of claude-mcp.py: the EC2Manager (instance directory and SSM    *)
(* command runner) and the ModelContextProtocol session (command history   *)
(* and context snapshots).                                                 *)
(*                                                                         *)
(* Python values are modelled as follows.  A dict is a record, a list is a *)
(* sequence, None is the value None.  A call either returns a value or     *)
(* raises an exception: Return(v) and Raise(class, msg).  The text of a    *)
(* command's standard output is a sequence of character codes, so that the *)
(* slice of line 302 is computed on real characters.  The session's        *)
(* 'commands' list is a mutable object: it lives in the heap and dicts     *)
(* that hold it hold its reference.                                        *)
(*                                                                         *)
(* The remote services (EC2, SSM) are the environment: every call of a     *)
(* boto3 client draws its outcome from a small set.  A client operation    *)
(* that the service rejects raises botocore's ClientError; a waiter that   *)
(* fails or runs out of attempts raises botocore's WaiterError, which is   *)
(* not a ClientError.  A registry lookup may also fail before the service   *)
(* answers (no route to the endpoint): botocore then raises                *)
(* EndpointConnectionError, which is not a ClientError either.  Every      *)
(* method yields, besides what it returns or raises, the trace of the      *)
(* remote requests it made and their replies.                              *)
(***************************************************************************)
EXTENDS Integers, Sequences, FiniteSets, TLC

\* Bounds of the model.
MaxCalls == 2          \* run_command_on_instance calls in one session
MaxExtra == 1          \* how far an output may exceed the history limit

\* The history keeps at most this many characters of an output (line 302).
OutputLimit == 1000

InstanceIds == {"i-1", "i-2"}
Commands == {"uptime", "df"}
SessionIds == {"uuid-a", "uuid-b"}

-----------------------------------------------------------------------------
\* Python values

None == <<"None">>

Return(v) == [kind |-> "return", value |-> v]
Raise(class, msg) == [kind |-> "raise", class |-> class, msg |-> msg]
IsRaise(r) == r.kind = "raise"

\* except ClientError: the handler takes exactly the exceptions of that class
IsClientError(r) == IsRaise(r) /\ r.class = "ClientError"

\* One remote request and the reply it got
Call(request, reply) == [request |-> request, reply |-> reply]

\* A text of n characters; the character at position i depends on i.
Text(n) == [i \in 1..n |-> i % 7]
EmptyText == Text(0)

\* s[:n]
Slice(s, n) == IF Len(s) <= n THEN s ELSE SubSeq(s, 1, n)

-----------------------------------------------------------------------------
\* The environment: outcomes of the SSM client's calls

\* ssm_client.send_command: the service assigns a command id, or rejects
SendOutcomes ==
    { Return("sent"), Raise("ClientError", "AccessDenied") }

\* waiter.wait of 'command_executed': returns, or fails / times out
WaitOutcomes ==
    { Return("executed"), Raise("WaiterError", "Waiter CommandExecuted failed") }

OutputLengths == {0, OutputLimit} \cup (OutputLimit + 1 .. OutputLimit + MaxExtra)

\* ssm_client.get_command_invocation: the invocation, or a rejection
Invocations ==
    { [Status |-> "Success", StandardOutputContent |-> Text(n),
       StandardErrorContent |-> ""] : n \in OutputLengths }
    \cup
    { [Status |-> "Failed", StandardOutputContent |-> EmptyText,
       StandardErrorContent |-> "sh: command not found"] }

FetchOutcomes ==
    { Return(r) : r \in Invocations }
    \cup { Raise("ClientError", "InvocationDoesNotExist") }

-----------------------------------------------------------------------------
\* The environment: outcomes of the EC2 client's and the SSM registry's calls

Region == "us-east-1"

\* The instances the account may hold: i-3 is outside the sessions' targets
DirectoryIds == InstanceIds \cup {"i-3"}

\* What describe_instances reports of a running instance; PrivateIpAddress,
\* PublicIpAddress and PlatformDetails are optional keys of the description
Description(id) ==
    CASE id = "i-1" ->
            [InstanceId |-> id, InstanceType |-> "t2.micro",
             State |-> [Name |-> "running"],
             PrivateIpAddress |-> "10.0.0.1", PublicIpAddress |-> "54.0.0.1",
             PlatformDetails |-> "Linux/UNIX",
             Tags |-> << [Key |-> "env", Value |-> "prod"],
                         [Key |-> "Name", Value |-> "web"] >>]
      [] id = "i-2" ->
            [InstanceId |-> id, InstanceType |-> "t3.small",
             State |-> [Name |-> "running"],
             PrivateIpAddress |-> "10.0.0.2",
             Tags |-> << [Key |-> "env", Value |-> "test"] >>]
      [] OTHER ->
            [InstanceId |-> id, InstanceType |-> "t2.micro",
             State |-> [Name |-> "running"],
             PlatformDetails |-> "Windows",
             Tags |-> << >>]

\* The sequences of distinct instances of ids, in any order
Listings(ids) ==
    { s \in UNION { [1..n -> ids] : n \in 0..Cardinality(ids) } :
        \A i, j \in DOMAIN s : i # j => s[i] # s[j] }

\* ec2_client.describe_instances: the matching running instances, or a rejection
DescribeOutcomes(ids) ==
    { Return([i \in DOMAIN s |-> Description(s[i])]) : s \in Listings(ids) }
    \cup { Raise("ClientError", "UnauthorizedOperation") }

\* ssm_client.describe_instance_information for one instance: its
\* InstanceInformationList (one entry when registered, none when not), a
\* rejection, or no connection to the service
LookupOutcomes ==
    { Return([InstanceInformationList |-> << [PingStatus |-> "Online"] >>]),
      Return([InstanceInformationList |-> << >>]),
      Raise("ClientError", "ThrottlingException"),
      Raise("EndpointConnectionError", "Could not connect to the endpoint URL") }

\* The outcomes of the lookups list_instances makes after response, taken
\* from outcomes: one for each instance described, none when
\* describe_instances failed
LookupsFrom(response, outcomes) ==
    [ (IF IsRaise(response) THEN {}
       ELSE { response.value[i].InstanceId : i \in DOMAIN response.value })
      -> outcomes ]

Lookups(response) == LookupsFrom(response, LookupOutcomes)

\* A lookup that finds the instance and a lookup the service rejects
FewLookupOutcomes ==
    { l \in LookupOutcomes :
        \/ IsClientError(l)
        \/ ~IsRaise(l) /\ l.value.InstanceInformationList # << >> }

-----------------------------------------------------------------------------
\* The environment: outcomes of the Bedrock client's call

ModelId == "anthropic.claude-3-sonnet-20240229-v1:0"

\* The defaults of query_claude's sampling parameters
DefaultMaxTokens == 1000
DefaultTemperature == "0.7"

UserMessages == {"is the web server up?"}

\* bedrock_client.invoke_model: a response whose body reads as JSON with the
\* reply in content[0].text, as JSON without it, or not as JSON at all; or a
\* rejection, or no connection to the service
InvokeOutcomes ==
    { Return([body |-> [json |-> TRUE,
                        value |-> [content |-> << [type |-> "text",
                                                    text |-> "It is up."] >>]]]),
      Return([body |-> [json |-> TRUE, value |-> [content |-> << >>]]]),
      Return([body |-> [json |-> TRUE, value |-> [message |-> "Too many tokens"]]]),
      Return([body |-> [json |-> FALSE]]),
      Raise("ClientError", "ThrottlingException"),
      Raise("EndpointConnectionError", "Could not connect to the endpoint URL") }

-----------------------------------------------------------------------------
\* EC2Manager: the instance directory

\* dict.get(key, default)
Get(d, key, default) == IF key \in DOMAIN d THEN d[key] ELSE default

\* _check_ssm_status
_check_ssm_status(instance_id, lookup) ==
    [outcome |->
        IF IsRaise(lookup)
        THEN IF IsClientError(lookup) THEN Return("Unknown") ELSE lookup
        ELSE IF lookup.value.InstanceInformationList # << >>
             THEN Return("Available")
             ELSE Return("Not Available"),
     trace |-> << Call([op |-> "describe_instance_information",
                        InstanceId |-> instance_id], lookup) >>]

\* the loop of lines 95-99: the value of the first tag whose key is Name
RECURSIVE InstanceName(_)
InstanceName(tags) ==
    IF tags = << >> THEN "Unnamed"
    ELSE IF Head(tags).Key = "Name" THEN Head(tags).Value
    ELSE InstanceName(Tail(tags))

\* A faulty variant of Skipped: an instance whose lookup failed is kept
SkippedUnlessUnknown(ssm_only, ssm_status) == ssm_only /\ ssm_status = "Not Available"

\* the test of lines 103-105: is the instance skipped?
Skipped(ssm_only, ssm_status) == ssm_only /\ ssm_status # "Available"

\* the dict of lines 107-118 (LaunchTime, a timestamp no property reads,
\* is left out)
InstanceEntry(instance, ssm_status) ==
    [InstanceId |-> instance.InstanceId,
     Name       |-> InstanceName(Get(instance, "Tags", << >>)),
     Type       |-> instance.InstanceType,
     State      |-> instance.State.Name,
     PrivateIP  |-> Get(instance, "PrivateIpAddress", "N/A"),
     PublicIP   |-> Get(instance, "PublicIpAddress", "N/A"),
     SSM_Status |-> ssm_status,
     Platform   |-> Get(instance, "PlatformDetails", "N/A"),
     Tags       |-> Get(instance, "Tags", << >>)]

\* the loop of lines 92-118 over the described instances, from the left;
\* lookups gives the outcome of each instance's registry lookup
RECURSIVE CollectInstances(_, _, _, _, _)
CollectInstances(described, lookups, ssm_only, instances, trace) ==
    IF described = << >> THEN [outcome |-> Return(instances), trace |-> trace]
    ELSE LET instance == Head(described)
             ssm == _check_ssm_status(instance.InstanceId,
                                      lookups[instance.InstanceId])
         IN  IF IsRaise(ssm.outcome)
             THEN [outcome |-> ssm.outcome, trace |-> trace \o ssm.trace]
             ELSE CollectInstances(
                      Tail(described), lookups, ssm_only,
                      IF Skipped(ssm_only, ssm.outcome.value)
                      THEN instances
                      ELSE Append(instances,
                                  InstanceEntry(instance, ssm.outcome.value)),
                      trace \o ssm.trace)

\* list_instances: the filters only shape the request, the service applies
\* them; response is the outcome of describe_instances, its reservations'
\* instances in the order the two loops visit them; a failure of
\* describe_instances is not handled
list_instances(response, lookups, ssm_only) ==
    LET described == << Call([op |-> "describe_instances"], response) >>
    IN  IF IsRaise(response)
        THEN [outcome |-> response, trace |-> described]
        ELSE CollectInstances(response.value, lookups, ssm_only, << >>, described)

-----------------------------------------------------------------------------
\* EC2Manager: the command runner

\* run_command: the command id, or None when send_command raises ClientError
run_command(instance_ids, command, sent, command_id) ==
    [outcome |->
        IF IsRaise(sent)
        THEN IF IsClientError(sent) THEN Return(None) ELSE sent
        ELSE Return(command_id),
     trace |-> << Call([op |-> "send_command", InstanceIds |-> instance_ids,
                        command |-> command], sent) >>]

\* get_command_output: the body of the try block, then its handler
get_command_output(command_id, instance_id, wait, waited, fetched) ==
    LET waiting == << Call([op |-> "command_executed.wait", CommandId |-> command_id,
                            InstanceId |-> instance_id], waited) >>
        fetching == << Call([op |-> "get_command_invocation", CommandId |-> command_id,
                             InstanceId |-> instance_id], fetched) >>
        body ==
            IF wait /\ IsRaise(waited)
            THEN [outcome |-> waited, trace |-> waiting]
            ELSE [outcome |->
                    IF IsRaise(fetched) THEN fetched
                    ELSE Return([Status |-> fetched.value.Status,
                                 Output |-> fetched.value.StandardOutputContent,
                                 Error  |-> fetched.value.StandardErrorContent]),
                  trace |-> (IF wait THEN waiting ELSE << >>) \o fetching]
    IN  IF IsClientError(body.outcome)
        THEN [outcome |-> Return([Status |-> "Failed", Output |-> EmptyText,
                                  Error  |-> body.outcome.msg]),
              trace   |-> body.trace]
        ELSE body

-----------------------------------------------------------------------------
\* ModelContextProtocol: the session

VARIABLES
    session_data,   \* self.session_data; its 'commands' is a heap reference
    heap,           \* the list objects: reference -> list
    now,            \* the wall clock read by datetime.datetime.now()
    calls,          \* the run_command_on_instance calls made so far, in order
    context,        \* the last context generate_context returned to the caller
    built,          \* the history as it was when context was built
    remote,         \* the remote requests of the last call, with their replies
    result,         \* the last call: its arguments, what it returned or raised
    environ,        \* fluffys: os.environ's GITHUB_TOKEN_ADMIN_READ, "" when unset
    github,         \* fluffys: the runners registered to the organization now
    cache,          \* fluffys: the lru_cache of _get_all_gh_runners
    cloudwatch      \* fluffys: the pages of log streams of each log group

\* The state of the PyTorch infra server of fluffys/main.py
fluffys == <<environ, github, cache, cloudwatch>>

\* The state of the ModelContextProtocol session of claude-mcp.py
mcp_session == <<session_data, heap, now, calls, context, built>>

vars == <<session_data, heap, now, calls, context, built, remote, result,
          environ, github, cache, cloudwatch>>

\* The lru_cache before the first call of the function it wraps
EmptyCache == [kind |-> "empty"]

CommandsRef == "commands"

\* The caller holds no context yet
NoContext == [kind |-> "none"]

\* self.session_data['commands'], the list the reference designates
history == heap[session_data.commands]

\* __init__, and the import of fluffys/main.py
Started ==
    /\ session_data \in { [session_id |-> s, start_time |-> 0, commands |-> CommandsRef]
                          : s \in SessionIds }
    /\ heap = [r \in {CommandsRef} |-> << >>]
    /\ now = 0
    /\ calls = << >>
    /\ context = NoContext
    /\ built = << >>
    /\ remote = << >>
    /\ result = [op |-> "__init__", args |-> << >>, kind |-> "return", value |-> None]
    /\ environ = ""
    /\ github = << >>
    /\ cache = EmptyCache

\* The state after construction, no log group in CloudWatch
Init == Started /\ cloudwatch = << >>

\* A faulty variant of StoredOutput: the output is recorded whole
StoredOutputWhole(output) == output

\* the value of line 302
StoredOutput(output) ==
    IF Len(output) > OutputLimit THEN Slice(output, OutputLimit) ELSE output

\* the dict of lines 297-304
command_record(timestamp, instance_id, command, output, command_id) ==
    [timestamp   |-> timestamp,
     instance_id |-> instance_id,
     command     |-> command,
     status      |-> output.Status,
     output      |-> StoredOutput(output.Output),
     command_id  |-> command_id]

\* A faulty variant of ListAppend: the record is put in front
ListPrepend(list, item) == <<item>> \o list

\* A faulty variant of ListAppend: the record replaces the list
ListKeepLast(list, item) == <<item>>

\* list.append
ListAppend(list, item) == Append(list, item)

\* A faulty variant of NotSent: the sentinel is not tested
NotSentIgnored(command_id) == FALSE

\* the test of line 290
NotSent(command_id) == command_id = None

\* the return of line 291
SendFailed == [status |-> "Failed", error |-> "Failed to send command"]

\* run_command_on_instance: what it returns or raises, the list it leaves and
\* the remote requests it made
run_command_on_instance(commands, instance_id, command, command_id, sent, waited, fetched, clock) ==
    LET submitted == run_command(<<instance_id>>, command, sent, command_id)
        output == get_command_output(submitted.outcome.value, instance_id, TRUE,
                                     waited, fetched)
    IN  IF IsRaise(submitted.outcome)
        THEN [outcome |-> submitted.outcome, commands |-> commands,
              trace |-> submitted.trace]
        ELSE IF NotSent(submitted.outcome.value)
        THEN [outcome |-> Return(SendFailed), commands |-> commands,
              trace |-> submitted.trace]
        ELSE IF IsRaise(output.outcome)
        THEN [outcome |-> output.outcome, commands |-> commands,
              trace |-> submitted.trace \o output.trace]
        ELSE [outcome  |-> Return(output.outcome.value),
              commands |-> ListAppend(commands,
                              command_record(clock, instance_id, command,
                                             output.outcome.value,
                                             submitted.outcome.value)),
              trace    |-> submitted.trace \o output.trace]

RunCommandOnInstance(instance_id, command, sent, waited, fetched) ==
    /\ Len(calls) < MaxCalls
    /\ LET command_id == <<"cmd", Len(calls) + 1>>
           r == run_command_on_instance(history, instance_id, command, command_id,
                                        sent, waited, fetched, now + 1)
       IN  /\ heap' = [heap EXCEPT ![session_data.commands] = r.commands]
           /\ result' = [op   |-> "run_command_on_instance",
                         args |-> [instance_id |-> instance_id, command |-> command]]
                        @@ r.outcome
           /\ remote' = r.trace
           /\ calls' = Append(calls, [instance_id |-> instance_id,
                                      command     |-> command,
                                      trace       |-> r.trace,
                                      before      |-> history])
    /\ now' = now + 1
    /\ UNCHANGED <<session_data, context, built>>
    /\ UNCHANGED fluffys

\* the loop of lines 223-225: the tags as a dict, a later tag of a key
\* replacing an earlier one
TagsDict(tags) ==
    [k \in { tags[i].Key : i \in DOMAIN tags } |->
        LET last == CHOOSE i \in DOMAIN tags :
                        /\ tags[i].Key = k
                        /\ \A j \in DOMAIN tags : tags[j].Key = k => j <= i
        IN  tags[last].Value]

\* _format_instances_for_context
_format_instances_for_context(instances) ==
    [i \in DOMAIN instances |->
        [id         |-> instances[i].InstanceId,
         name       |-> instances[i].Name,
         type       |-> instances[i].Type,
         private_ip |-> instances[i].PrivateIP,
         platform   |-> instances[i].Platform,
         ssm_status |-> instances[i].SSM_Status,
         tags       |-> TagsDict(Get(instances[i], "Tags", << >>))]]

\* A faulty variant of IncludesHistory: an empty history is included too
IncludesHistoryWhenAsked(include_commands, commands) == include_commands

\* the test of line 273; commands is the session's list
IncludesHistory(include_commands, commands) == include_commands /\ commands # << >>

\* A faulty variant of SessionEntry: the start time is the time of the context
SessionEntryStamped(session) ==
    [id |-> session.session_id, start_time |-> now]

\* The "session" entry of a context: the id and the start time of the session
SessionEntry(session) ==
    [id |-> session.session_id, start_time |-> session.start_time]

\* generate_context: the context dict, or what list_instances raised.  The
\* command_history entry is the session's list itself, not a copy of it.
generate_context(session, commands, response, lookups, include_commands) ==
    LET instances == list_instances(response, lookups, TRUE)
        base == [schema_version |-> "v1",
                 session        |-> SessionEntry(session),
                 environment    |-> [aws_region    |-> Region,
                                     ec2_instances |->
                                        _format_instances_for_context(
                                            instances.outcome.value)]]
    IN  [outcome |->
            IF IsRaise(instances.outcome) THEN instances.outcome
            ELSE IF IncludesHistory(include_commands, commands)
            THEN Return(base @@ [command_history |-> session.commands])
            ELSE Return(base),
         trace |-> instances.trace]

\* The list a context's command_history designates now
ContextHistory(c) == heap[c.command_history]

GenerateContext(response, lookups, include_commands) ==
    LET r == generate_context(session_data, history, response, lookups, include_commands)
    IN  /\ result' = [op   |-> "generate_context",
                      args |-> [include_commands |-> include_commands]] @@ r.outcome
        /\ remote' = r.trace
        /\ IF IsRaise(r.outcome)
           THEN UNCHANGED <<context, built>>
           ELSE context' = r.outcome /\ built' = history
        /\ UNCHANGED <<session_data, heap, now, calls>>
        /\ UNCHANGED fluffys

ListInstances(response, lookups, ssm_only) ==
    LET r == list_instances(response, lookups, ssm_only)
    IN  /\ result' = [op   |-> "list_instances",
                      args |-> [ssm_only |-> ssm_only]] @@ r.outcome
        /\ remote' = r.trace
        /\ UNCHANGED <<session_data, heap, now, calls, context, built>>
        /\ UNCHANGED fluffys

\* json.loads of a response body
json_loads(body) ==
    IF body.json THEN Return(body.value)
    ELSE Raise("JSONDecodeError", "Expecting value: line 1 column 1 (char 0)")

\* response_body['content'][0]['text']
ReplyText(response_body) ==
    IF "content" \notin DOMAIN response_body THEN Raise("KeyError", "'content'")
    ELSE IF response_body.content = << >>
    THEN Raise("IndexError", "list index out of range")
    ELSE Return(response_body.content[1].text)

\* The start of the string query_claude returns from its handler
ErrorPrefix == "Error communicating with Claude: "

\* A faulty variant of Handled: only a rejection of the service is handled
HandledClientErrorOnly(raised) == IsClientError(raised)

\* except Exception: the handler of line 362 takes every exception
Handled(raised) == IsRaise(raised)

\* json.dumps of a context: the text holds the records the command_history
\* list has when the text is made
json_dumps(c, lists) ==
    [json |-> IF "command_history" \in DOMAIN c
              THEN [c EXCEPT !.command_history = lists[c.command_history]]
              ELSE c]

\* query_claude; supplied is the context argument, NoContext standing for
\* None, and invoked the outcome of invoke_model
query_claude(session, lists, user_message, supplied, max_tokens, temperature, response, lookups, invoked) ==
    LET generated ==
            IF supplied.kind = "none"
            THEN generate_context(session, lists[session.commands], response,
                                  lookups, TRUE)
            ELSE [outcome |-> supplied, trace |-> << >>]
        payload ==
            [anthropic_version |-> "bedrock-2023-05-31",
             max_tokens  |-> max_tokens,
             temperature |-> temperature,
             messages    |->
                << [role    |-> "user",
                    content |-> << [type |-> "text",
                                    text |-> << "<mcp>",
                                                json_dumps(generated.outcome.value, lists),
                                                "</mcp>", user_message >>] >>] >>]
        invoking == << Call([op |-> "invoke_model", modelId |-> ModelId,
                             body |-> [json |-> payload]], invoked) >>
        response_body ==
            IF IsRaise(invoked) THEN invoked ELSE json_loads(invoked.value.body)
        text ==
            IF IsRaise(response_body) THEN response_body
            ELSE ReplyText(response_body.value)
    IN  IF IsRaise(generated.outcome) THEN generated
        ELSE [outcome |->
                IF Handled(text)
                THEN Return(ErrorPrefix \o text.msg)
                ELSE text,
              trace |-> generated.trace \o invoking]

QueryClaude(user_message, supplied, response, lookups, invoked) ==
    LET r == query_claude(session_data, heap, user_message, supplied,
                          DefaultMaxTokens, DefaultTemperature,
                          response, lookups, invoked)
    IN  /\ result' = [op   |-> "query_claude",
                      args |-> [user_message |-> user_message,
                                context      |-> supplied]] @@ r.outcome
        /\ remote' = r.trace
        /\ UNCHANGED <<session_data, heap, now, calls, context, built>>
        /\ UNCHANGED fluffys

-----------------------------------------------------------------------------
\* fluffys/main.py: the runners registered to GitHub

\* The most runners the organization has, and the runners of one page of the
\* listing (per_page=100 in the source, scaled down with the runners)
MaxRunners == 2
PerPage == 1

\* A str element of a list; a dict element is a record of its keys
Str(text) == [str |-> text]
IsStr(e) == "str" \in DOMAIN e

\* The i-th runner of the organization, as the API describes it
Runner(i) ==
    [id     |-> i,
     name   |-> "i-0" \o ToString(i),
     os     |-> "linux",
     status |-> IF i % 2 = 1 THEN "online" ELSE "offline",
     busy   |-> i % 2 = 0,
     labels |-> IF i % 2 = 1
                THEN << [id |-> 1, name |-> "self-hosted", type |-> "read-only"] >>
                ELSE << [id |-> 1, name |-> "self-hosted", type |-> "read-only"],
                        [id |-> 2, name |-> "arm64", type |-> "custom"] >>]

\* The states of the organization: its first n runners are registered
Registered(n) == [i \in 1..n |-> Runner(i)]
Organizations == { Registered(n) : n \in 0..MaxRunners }

\* os.environ: the token is unset or set
Environs == { "", "ghp_token" }

\* What goes wrong with the request of a page: nothing, no connection, the
\* token refused, a body that is not a JSON object
NoFault == [at |-> 0, kind |-> "none"]
Faults ==
    { NoFault } \cup
    [at : 1..2, kind : {"ConnectionError", "Unauthorized", "NotAnObject"}]

RunnersUrl == "https://api.github.com/orgs/pytorch/actions/runners?per_page=100"

\* The pages of the listing: one, empty, when there is no runner
NumPages(runners) ==
    IF runners = << >> THEN 1 ELSE (Len(runners) + PerPage - 1) \div PerPage

PageOf(runners, k) ==
    [total_count |-> Len(runners),
     runners     |-> SubSeq(runners, (k - 1) * PerPage + 1,
                            IF k * PerPage < Len(runners) THEN k * PerPage
                            ELSE Len(runners))]

\* The Link header of page k, an entry for each comma-separated part; a page
\* is designated by its number
LinkHeader(runners, k) ==
    (IF k < NumPages(runners) THEN << [url |-> k + 1, rel |-> "next"] >> ELSE << >>)
    \o (IF NumPages(runners) > 1
        THEN << [url |-> NumPages(runners), rel |-> "last"] >> ELSE << >>)

\* requests.get of page k
requests_get(runners, k, fault) ==
    IF fault.at = k /\ fault.kind = "ConnectionError"
    THEN Raise("ConnectionError", "Connection refused")
    ELSE IF fault.at = k /\ fault.kind = "Unauthorized"
    THEN Return([status_code |-> 401, reason |-> "Unauthorized",
                 body |-> [object |-> TRUE, value |-> [message |-> "Bad credentials"]],
                 Link |-> << >>])
    ELSE IF fault.at = k /\ fault.kind = "NotAnObject"
    THEN Return([status_code |-> 200, reason |-> "OK",
                 body |-> [object |-> FALSE], Link |-> << >>])
    ELSE Return([status_code |-> 200, reason |-> "OK",
                 body |-> [object |-> TRUE, value |-> PageOf(runners, k)],
                 Link |-> LinkHeader(runners, k)])

\* response.raise_for_status()
raise_for_status(response) ==
    IF response.status_code >= 400
    THEN Raise("HTTPError", ToString(response.status_code) \o " Client Error: "
                            \o response.reason \o " for url: " \o RunnersUrl)
    ELSE Return(None)

\* data.get("runners", [])
RunnersOf(body) ==
    IF ~body.object
    THEN Raise("AttributeError", "'list' object has no attribute 'get'")
    ELSE IF "runners" \in DOMAIN body.value THEN Return(body.value.runners)
    ELSE Return(<< >>)

\* lines 373-385: the url of the last part of the header whose rel is next;
\* 0 stands for None
RECURSIVE NextUrl(_, _, _)
NextUrl(link_header, i, found) ==
    IF i > Len(link_header) THEN found
    ELSE NextUrl(link_header, i + 1,
                 IF link_header[i].rel = "next" THEN link_header[i].url ELSE found)


TokenNotSet == "GITHUB_TOKEN_ADMIN_READ environment variable is not set."

\* The loop of lines 357-385 from the page current_url on, with its handlers
RECURSIVE FetchRunners(_, _, _, _, _, _)
FetchRunners(github_token, runners, fault, current_url, all_instances, trace) ==
    LET response == requests_get(runners, current_url, fault)
        requested ==
            Append(trace, Call([op            |-> "requests.get",
                                url           |-> current_url,
                                Authorization |-> "Bearer " \o github_token],
                               response))
        status == IF IsRaise(response) THEN response
                  ELSE raise_for_status(response.value)
        data == IF IsRaise(status) THEN status ELSE RunnersOf(response.value.body)
    IN  IF IsRaise(data)
        THEN [outcome |->
                IF data.class \in {"ConnectionError", "HTTPError"}
                THEN Return(<< Str("Error connecting to GitHub API: " \o data.msg) >>)
                ELSE Return(<< Str("Unexpected error: " \o data.msg) >>),
              trace |-> requested]
        ELSE IF NextUrl(response.value.Link, 1, 0) = 0
        THEN [outcome |-> Return(all_instances \o data.value), trace |-> requested]
        ELSE FetchRunners(github_token, runners, fault,
                          NextUrl(response.value.Link, 1, 0),
                          all_instances \o data.value, requested)

\* _get_all_gh_runners without its decorator
_get_all_gh_runners(github_token, runners, fault) ==
    IF github_token = ""
    THEN [outcome |-> Return(<< Str(TokenNotSet) >>), trace |-> << >>]
    ELSE FetchRunners(github_token, runners, fault, 1, << >>, << >>)

\* A faulty variant of lru_cache: the function is called every time
not_cached(memo, github_token, runners, fault) ==
    _get_all_gh_runners(github_token, runners, fault)

\* @lru_cache on a function without arguments: the value of the first call
\* that returned is the value of every later call
lru_cache(memo, github_token, runners, fault) ==
    IF memo.kind = "set"
    THEN [outcome |-> Return(memo.value), trace |-> << >>]
    ELSE _get_all_gh_runners(github_token, runners, fault)

\* str.lower of one character
LowerOf ==
    [c \in {"A", "B", "C", "D", "E", "F", "G", "H", "I", "J", "K", "L", "M",
            "N", "O", "P", "Q", "R", "S", "T", "U", "V", "W", "X", "Y", "Z"} |->
        CASE c = "A" -> "a" [] c = "B" -> "b" [] c = "C" -> "c" [] c = "D" -> "d"
          [] c = "E" -> "e" [] c = "F" -> "f" [] c = "G" -> "g" [] c = "H" -> "h"
          [] c = "I" -> "i" [] c = "J" -> "j" [] c = "K" -> "k" [] c = "L" -> "l"
          [] c = "M" -> "m" [] c = "N" -> "n" [] c = "O" -> "o" [] c = "P" -> "p"
          [] c = "Q" -> "q" [] c = "R" -> "r" [] c = "S" -> "s" [] c = "T" -> "t"
          [] c = "U" -> "u" [] c = "V" -> "v" [] c = "W" -> "w" [] c = "X" -> "x"
          [] c = "Y" -> "y" [] c = "Z" -> "z"]

LowerChar(c) == IF c \in DOMAIN LowerOf THEN LowerOf[c] ELSE c

\* re.search(pattern, text, re.IGNORECASE) for a pattern of letters, digits
\* and hyphens: text has pattern somewhere, whatever the case of the letters
re_search(pattern, text) ==
    \E i \in 1..(Len(text) - Len(pattern) + 1) :
        \A j \in 1..Len(pattern) :
            LowerChar(SubSeq(pattern, j, j))
                = LowerChar(SubSeq(text, i + j - 1, i + j - 1))

\* ' '.join and ', '.join
RECURSIVE Join(_, _)
Join(texts, separator) ==
    IF texts = << >> THEN ""
    ELSE IF Len(texts) = 1 THEN texts[1]
    ELSE texts[1] \o separator \o Join(Tail(texts), separator)

\* json.dumps of a label, and of an element of the list: a str or a runner
LabelJson(l) ==
    "{\"id\": " \o ToString(l.id) \o ", \"name\": \"" \o l.name
        \o "\", \"type\": \"" \o l.type \o "\"}"

JsonText(instance) ==
    IF IsStr(instance) THEN "\"" \o instance.str \o "\""
    ELSE "{\"id\": " \o ToString(instance.id)
         \o ", \"name\": \"" \o instance.name
         \o "\", \"os\": \"" \o instance.os
         \o "\", \"status\": \"" \o instance.status
         \o "\", \"busy\": " \o (IF instance.busy THEN "true" ELSE "false")
         \o ", \"labels\": ["
         \o Join([i \in DOMAIN instance.labels |-> LabelJson(instance.labels[i])], ", ")
         \o "]}"

\* The f-string of line 413; indexing a str with a str raises TypeError
RunnerLine(instance) ==
    IF IsStr(instance) THEN Raise("TypeError", "string indices must be integers")
    ELSE Return(ToString(instance.id) \o " " \o instance.name
                \o " (" \o instance.status \o ") "
                \o (IF instance.busy THEN "busy" ELSE "") \o " "
                \o Join([i \in DOMAIN instance.labels |-> instance.labels[i].name], " "))

\* The list comprehension of lines 412-417 from the i-th element on
RECURSIVE Comprehension(_, _, _, _)
Comprehension(all_instances, search_str, i, lines) ==
    IF i > Len(all_instances) THEN Return(lines)
    ELSE IF ~re_search(search_str, JsonText(all_instances[i]))
    THEN Comprehension(all_instances, search_str, i + 1, lines)
    ELSE IF IsRaise(RunnerLine(all_instances[i])) THEN RunnerLine(all_instances[i])
    ELSE Comprehension(all_instances, search_str, i + 1,
                       Append(lines, RunnerLine(all_instances[i]).value))

\* list_runners_connected_to_github after line 406
list_runners_connected_to_github(all_instances, search_str) ==
    IF all_instances = << >>
    THEN Return(<< "No EC2 instances found connected to GitHub." >>)
    ELSE Comprehension(all_instances, search_str, 1, << >>)

\* The search strings of the callers
SearchStrings == { "", "i-01", "ONLINE", "Busy", "arm64", "token", "windows" }

ListRunnersConnectedToGithub(search_str, fault) ==
    LET all_instances == lru_cache(cache, environ, github, fault)
    IN  /\ cache' = [kind |-> "set", value |-> all_instances.outcome.value]
        /\ result' = [op   |-> "list_runners_connected_to_github",
                      args |-> [search_str |-> search_str]]
                     @@ list_runners_connected_to_github(
                            all_instances.outcome.value, search_str)
        /\ remote' = all_instances.trace
        /\ UNCHANGED <<environ, github, cloudwatch>>
        /\ UNCHANGED mcp_session

\* The environment of the server: the token is set or unset, a runner is
\* registered to the organization or removed from it
SetToken(token) ==
    /\ environ' = token
    /\ UNCHANGED <<github, cache, cloudwatch, remote, result>>
    /\ UNCHANGED mcp_session

RunnersChange(runners) ==
    /\ github' = runners
    /\ UNCHANGED <<environ, cache, cloudwatch, remote, result>>
    /\ UNCHANGED mcp_session

-----------------------------------------------------------------------------
\* fluffys/main.py: the log streams of CloudWatch

\* The most log streams a group has
MaxStreams == 3

\* A time argument: an ISO text, which denotes a whole number of seconds
\* since the epoch, or None
NotGiven == [given |-> FALSE]
Times == { NotGiven } \cup [given : {TRUE}, seconds : 1..2]

\* int(datetime.fromisoformat(...).timestamp() * 1000)
to_ms(time) == time.seconds * 1000

\* The lastEventTimestamp of a stream, in milliseconds
Timestamps == { 500, 1000, 1500, 2000, 2500 }

\* The log groups: the first one exists, the second one does not
LogGroups == << "/aws/lambda/gh-ci-scale-up", "/aws/lambda/gh-ci-scale-down" >>
LogGroupLists == { << LogGroups[1] >>, << LogGroups[2], LogGroups[1] >> }

\* The streams of a group ordered by LastEventTime, descending
StreamListings ==
    { l \in UNION { [1..n -> Timestamps] : n \in 0..MaxStreams } :
        \A i \in 1..Len(l) : \A j \in i..Len(l) : l[i] >= l[j] }

LogStream(l, i) ==
    [logStreamName |-> "stream-" \o ToString(i), lastEventTimestamp |-> l[i]]

\* The pages describe_log_streams cuts a listing into, size streams a page
PagesOf(l, size) ==
    [k \in 1..(IF l = << >> THEN 1 ELSE (Len(l) + size - 1) \div size) |->
        [i \in 1..(IF k * size < Len(l) THEN size ELSE Len(l) - (k - 1) * size) |->
            LogStream(l, (k - 1) * size + i)]]

PageSizes == { 1, 2 }

\* The states of CloudWatch: the pages of each group that exists
LogServices ==
    { [g \in { LogGroups[1] } |-> PagesOf(l, size)] :
        l \in StreamListings, size \in PageSizes }

\* The test of lines 150-160 on one stream: "in", "before", "after", or the
\* exception of reading a local that no assignment has bound
StreamTest(stream, start_time, end_time) ==
    IF "lastEventTimestamp" \notin DOMAIN stream THEN Return("after")
    ELSE IF ~start_time.given
    THEN Raise("UnboundLocalError",
               "cannot access local variable 'start_time_ms' where it is not associated with a value")
    ELSE IF to_ms(start_time) <= stream.lastEventTimestamp
    THEN IF ~end_time.given
         THEN Raise("UnboundLocalError",
                    "cannot access local variable 'end_time_ms' where it is not associated with a value")
         ELSE IF stream.lastEventTimestamp <= to_ms(end_time) THEN Return("in")
         ELSE Return("after")
    ELSE Return("before")

\* The loop of lines 148-160 over one page, from its i-th stream on
RECURSIVE ScanPage(_, _, _, _, _, _)
ScanPage(page, i, start_time, end_time, streams, found) ==
    IF i > Len(page) THEN Return([streams |-> streams, found |-> found])
    ELSE LET test == StreamTest(page[i], start_time, end_time)
         IN  IF IsRaise(test) THEN test
             ELSE IF test.value = "in"
             THEN ScanPage(page, i + 1, start_time, end_time,
                           Append(streams, page[i]), TRUE)
             ELSE IF test.value = "before"
             THEN Return([streams |-> streams, found |-> found])
             ELSE ScanPage(page, i + 1, start_time, end_time, streams, found)

\* if found: break (lines 162-163)
StopsPaging(found) == found

\* The loop of lines 145-163 over the pages of a group, from page k on
RECURSIVE Paginate(_, _, _, _, _, _, _)
Paginate(log_group, pages, k, start_time, end_time, streams, trace) ==
    LET requested ==
            Append(trace, Call([op           |-> "describe_log_streams",
                                logGroupName |-> log_group,
                                orderBy      |-> "LastEventTime",
                                descending   |-> TRUE,
                                page         |-> k],
                               Return([logStreams |-> pages[k]])))
        scanned == ScanPage(pages[k], 1, start_time, end_time, streams, FALSE)
    IN  IF IsRaise(scanned) THEN [outcome |-> scanned, trace |-> requested]
        ELSE IF StopsPaging(scanned.value.found) \/ k = Len(pages)
        THEN [outcome |-> Return(scanned.value.streams), trace |-> requested]
        ELSE Paginate(log_group, pages, k + 1, start_time, end_time,
                      scanned.value.streams, requested)

\* The body of the loop of line 138 for one group: the try and its handler
StreamsOfGroup(log_group, logs, start_time, end_time) ==
    IF log_group \notin DOMAIN logs
    THEN [outcome |-> Return(<< >>),
          trace   |-> << Call([op           |-> "describe_log_streams",
                               logGroupName |-> log_group,
                               orderBy      |-> "LastEventTime",
                               descending   |-> TRUE,
                               page         |-> 1],
                              Raise("ResourceNotFoundException",
                                    "The specified log group does not exist.")) >>]
    ELSE Paginate(log_group, logs[log_group], 1, start_time, end_time, << >>, << >>)

\* An empty dict, and d[key] = value
EmptyDict == [key \in {} |-> << >>]
DictSet(d, key, value) == [k \in DOMAIN d \cup {key} |-> IF k = key THEN value ELSE d[k]]

\* list_log_streams from the i-th log group on
RECURSIVE list_log_streams(_, _, _, _, _, _, _)
list_log_streams(start_time, end_time, log_groups, logs, i, dict, trace) ==
    IF i > Len(log_groups) THEN [outcome |-> Return(dict), trace |-> trace]
    ELSE LET group == StreamsOfGroup(log_groups[i], logs, start_time, end_time)
         IN  IF IsRaise(group.outcome)
             THEN [outcome |-> group.outcome, trace |-> trace \o group.trace]
             ELSE list_log_streams(start_time, end_time, log_groups, logs, i + 1,
                                   DictSet(dict, log_groups[i], group.outcome.value),
                                   trace \o group.trace)

ListLogStreams(start_time, end_time, log_groups) ==
    LET r == list_log_streams(start_time, end_time, log_groups, cloudwatch, 1,
                              EmptyDict, << >>)
    IN  /\ result' = [op   |-> "list_log_streams",
                      args |-> [start_time |-> start_time,
                                end_time   |-> end_time,
                                log_groups |-> log_groups]] @@ r.outcome
        /\ remote' = r.trace
        /\ UNCHANGED <<environ, github, cache, cloudwatch>>
        /\ UNCHANGED mcp_session

-----------------------------------------------------------------------------
\* The specifications

\* One session's commands: every outcome of the three remote calls
Next ==
    \E instance_id \in InstanceIds, command \in Commands,
       sent \in SendOutcomes, waited \in WaitOutcomes, fetched \in FetchOutcomes :
        RunCommandOnInstance(instance_id, command, sent, waited, fetched)

Spec == Init /\ [][Next]_vars

\* The outcomes of a fetch that tell the histories of a session apart: an
\* output over the limit, and a rejection
SessionFetchOutcomes ==
    { f \in FetchOutcomes :
        IsRaise(f) \/ Len(f.value.StandardOutputContent) = OutputLimit + 1 }

\* One session's commands and contexts
NextSession ==
    \/ \E instance_id \in InstanceIds, sent \in SendOutcomes,
          waited \in WaitOutcomes, fetched \in SessionFetchOutcomes :
            RunCommandOnInstance(instance_id, "uptime", sent, waited, fetched)
    \/ \E response \in DescribeOutcomes({"i-1"}) :
         \E lookups \in LookupsFrom(response, FewLookupOutcomes),
            include_commands \in BOOLEAN :
            GenerateContext(response, lookups, include_commands)

SpecSession == Init /\ [][NextSession]_vars

\* The directory alone
NextDirectory ==
    \E response \in DescribeOutcomes(DirectoryIds) :
        \E lookups \in Lookups(response), ssm_only \in BOOLEAN :
            ListInstances(response, lookups, ssm_only)

SpecDirectory == Init /\ [][NextDirectory]_vars

-----------------------------------------------------------------------------
\* Properties of the session and of the directory

LastCall == calls[Len(calls)]
Ran == result.op = "run_command_on_instance"

\* send_command returned an invocation id to the last call
Submitted == Ran /\ ~IsRaise(remote[1].reply)

\* the last call's wait returned and its invocation was fetched
Fetched == Submitted /\ Len(remote) = 3 /\ ~IsRaise(remote[3].reply)

\* list is before with exactly one more record at its end
OneMore(before, list) ==
    /\ Len(list) = Len(before) + 1
    /\ SubSeq(list, 1, Len(before)) = before

\* C1: a call whose submit returned an invocation id has appended exactly one
\* record to the history when it ends, whatever the wait and the fetch did
C1_OneRecordPerSubmission ==
    Submitted => OneMore(LastCall.before, history)

\* C2: when the wait or the fetch fails, get_command_output raises nothing and
\* returns {Status: "Failed", Output: "", Error: <the failure's message>}
C2_RetrievalNeverRaises ==
    (Submitted /\ \E k \in 2..Len(remote) : IsRaise(remote[k].reply))
        => /\ result.kind = "return"
           /\ result.value = [Status |-> "Failed", Output |-> EmptyText,
                              Error  |-> remote[Len(remote)].reply.msg]

Retrieved(call) ==
    /\ ~IsRaise(call.trace[1].reply)
    /\ Len(call.trace) >= 2
    /\ ~IsRaise(call.trace[2].reply)

C5_ContextHistoryFrozen ==
    (context.kind = "return" /\ "command_history" \in DOMAIN context.value)
        => ContextHistory(context.value) = built

\* C6: every recorded output has at most OutputLimit characters; the record of
\* a fetched output holds its first OutputLimit characters when it is longer
\* and the output itself otherwise, and the caller gets the whole output
C6_RecordedOutputTruncated ==
    /\ \A i \in DOMAIN history : Len(history[i].output) <= OutputLimit
    /\ Fetched =>
        LET live == remote[3].reply.value.StandardOutputContent
            recorded == history[Len(history)].output
        IN  /\ result.kind = "return"
            /\ result.value.Output = live
            /\ Len(live) > OutputLimit
                => recorded = [i \in 1..OutputLimit |-> live[i]]
            /\ Len(live) <= OutputLimit => recorded = live

C6_Witness ==
    /\ Fetched
    /\ Len(remote[3].reply.value.StandardOutputContent) > OutputLimit
    /\ Len(history) = 2

\* C7: the history only grows: what it was before a step is a prefix of what
\* it is after
C7_HistoryOnlyGrows ==
    [][ /\ Len(history) <= Len(history')
        /\ SubSeq(history', 1, Len(history)) = history ]_vars

C7_Witness ==
    /\ Len(history) = 2
    /\ context.kind = "return"
    /\ result.op = "generate_context"

\* C8: every value run_command_on_instance returns has the keys Status,
\* Output and Error its callers read
C8_SameResultShape ==
    (Ran /\ result.kind = "return")
        => DOMAIN result.value = {"Status", "Output", "Error"}

Generated == result.op = "generate_context" /\ result.kind = "return"

\* C9: a context has a command_history exactly when it was asked for and the
\* history is not empty, and then it is the history, record for record, with
\* the outputs already cut
C9_HistoryFieldIffAskedAndNonEmpty ==
    Generated =>
        LET present == "command_history" \in DOMAIN result.value
        IN  /\ present <=> (result.args.include_commands /\ Len(history) > 0)
            /\ present =>
                /\ ContextHistory(result.value) = history
                /\ \A i \in DOMAIN history : Len(history[i].output) <= OutputLimit

C9_Witness ==
    /\ Generated
    /\ "command_history" \in DOMAIN result.value
    /\ \E i \in DOMAIN history : Len(history[i].output) = OutputLimit

Listed == result.op = "list_instances"

\* the ids of the instances a list_instances call returned
ReturnedIds == { result.value[i].InstanceId : i \in DOMAIN result.value }

\* C10: with ssm_only, list_instances returns only instances whose status is
\* Available: an instance is returned exactly when its lookup found it
\* registered, and no described instance gives the empty list, not a failure
C10_ReachableOnly ==
    /\ (Listed /\ result.args.ssm_only /\ result.kind = "return")
        => /\ \A i \in DOMAIN result.value : result.value[i].SSM_Status = "Available"
           /\ \A k \in 2..Len(remote) :
                (remote[k].request.InstanceId \in ReturnedIds)
                    <=> /\ ~IsRaise(remote[k].reply)
                        /\ remote[k].reply.value.InstanceInformationList # << >>
    /\ (Listed /\ result.args.ssm_only /\ ~IsRaise(remote[1].reply)
            /\ remote[1].reply.value = << >>)
        => result.kind = "return" /\ result.value = << >>

C10_Witness ==
    /\ Listed /\ result.args.ssm_only /\ result.kind = "return"
    /\ Len(result.value) = 1
    /\ \E k \in 2..Len(remote) : IsClientError(remote[k].reply)
    /\ \E k \in 2..Len(remote) :
        /\ ~IsRaise(remote[k].reply)
        /\ remote[k].reply.value.InstanceInformationList = << >>

\* the entry list_instances returned for an instance
EntryOf(id) ==
    result.value[CHOOSE i \in DOMAIN result.value : result.value[i].InstanceId = id]

\* C11: every described instance has one of the three statuses, given by its
\* lookup: found gives Available, not found gives Not Available, any failure
\* of the lookup gives Unknown; a failing lookup never ends list_instances,
\* which looks every instance up and returns
C11_StatusFromLookup ==
    (Listed /\ ~IsRaise(remote[1].reply))
        => /\ result.kind = "return"
           /\ Len(remote) = 1 + Len(remote[1].reply.value)
           /\ ~result.args.ssm_only =>
                \A k \in 2..Len(remote) :
                    /\ remote[k].request.InstanceId \in ReturnedIds
                    /\ EntryOf(remote[k].request.InstanceId).SSM_Status =
                        (IF IsRaise(remote[k].reply) THEN "Unknown"
                         ELSE IF remote[k].reply.value.InstanceInformationList # << >>
                         THEN "Available"
                         ELSE "Not Available")

Queried == result.op = "query_claude"
Asked ==
    /\ Queried
    /\ remote # << >>
    /\ remote[Len(remote)].request.op = "invoke_model"
ModelReply == remote[Len(remote)].reply
IsReplyWithText(reply) ==
    /\ ~IsRaise(reply)
    /\ reply.value.body.json
    /\ "content" \in DOMAIN reply.value.body.value
    /\ reply.value.body.value.content # << >>
MalformedReplyMessages ==
    { "Expecting value: line 1 column 1 (char 0)", "'content'",
      "list index out of range" }

\* C12: a query that asked the model returns a string and never raises: when
\* invoke_model raised, the fixed prefix followed by the message of that
\* exception; when the reply is malformed, the prefix followed by the message
\* of the failure to read it; and otherwise the text of the reply
C12_ModelFailureReturnedInBand ==
    Asked =>
        /\ result.kind = "return"
        /\ IsRaise(ModelReply) => result.value = ErrorPrefix \o ModelReply.msg
        /\ IsReplyWithText(ModelReply)
             => result.value = ModelReply.value.body.value.content[1].text
        /\ (~IsRaise(ModelReply) /\ ~IsReplyWithText(ModelReply))
             => \E m \in MalformedReplyMessages : result.value = ErrorPrefix \o m

C12_Witness ==
    /\ Asked
    /\ IsRaise(ModelReply) /\ ~IsClientError(ModelReply)
    /\ result = [op   |-> "query_claude",
                 args |-> [user_message |-> "is the web server up?",
                           context      |-> NoContext]]
                @@ Return("Error communicating with Claude: Could not connect to the endpoint URL")

DescribeFailed ==
    /\ remote # << >>
    /\ remote[1].request.op = "describe_instances"
    /\ IsRaise(remote[1].reply)

\* C13: a call raises only when describe_instances failed, and then it raises
\* the exception of describe_instances itself after that one request, no
\* lookup made; the failure of any other request (lookup, send, wait, fetch,
\* invoke_model) leaves the call returning a value
C13_OnlyDescribeFatal ==
    /\ result.kind = "raise"
         => /\ DescribeFailed
            /\ Len(remote) = 1
            /\ result.class = remote[1].reply.class
            /\ result.msg = remote[1].reply.msg
    /\ DescribeFailed
         => /\ result.kind = "raise"
            /\ Len(remote) = 1
            /\ result.class = remote[1].reply.class
            /\ result.msg = remote[1].reply.msg

\* The "session" entry of the context in the text sent to the model
SentSession(trace) ==
    trace[Len(trace)].request.body.json.messages[1].content[1].text[2].json.session

\* C16: no step changes the id or the start time of the session;
\* list_instances, generate_context and query_claude leave the history as it
\* is too, and run_command_on_instance changes the history only; every
\* context built, returned or sent to the model, carries that id and that
\* start time
C16_SessionFixed ==
    [][ /\ session_data' = session_data
        /\ session_data.start_time = 0
        /\ result'.op \in {"list_instances", "generate_context", "query_claude"}
             => heap' = heap
        /\ (result'.op = "generate_context" /\ result'.kind = "return")
             => result'.value.session
                    = [id         |-> session_data.session_id,
                       start_time |-> session_data.start_time]
        /\ (result'.op = "query_claude" /\ result'.kind = "return"
                                        /\ result'.args.context = NoContext)
             => SentSession(remote')
                    = [id         |-> session_data.session_id,
                       start_time |-> session_data.start_time]
      ]_vars

C16_Witness ==
    /\ Queried /\ result.kind = "return" /\ result.args.context = NoContext
    /\ history # << >>
    /\ now > session_data.start_time
    /\ SentSession(remote).start_time = session_data.start_time
    /\ SentSession(remote).id = session_data.session_id

ListedRunners == result.op = "list_runners_connected_to_github"

\* C14: a call of list_runners_connected_to_github made while the token is
\* not set, nothing memoised yet (the step that fills the cache), returns for
\* every search string the list of the one message that says so, and does
\* not raise
C14_PlaceholderWithoutToken ==
    [][ (environ = "" /\ cache = EmptyCache /\ cache' # EmptyCache)
            => /\ ListedRunners'
               /\ result'.kind = "return"
               /\ result'.value = << TokenNotSet >>
      ]_vars

\* C17: once _get_all_gh_runners has returned, the memoised value stays what
\* it is, whatever happens to the token and to the organization, and every
\* call of list_runners_connected_to_github (a step that changes neither the
\* token nor the organization) makes no request and gives what the filter
\* gives on that memoised value
C17_FetchedAtMostOnce ==
    [][ cache.kind = "set" =>
          /\ cache' = cache
          /\ (ListedRunners' /\ environ' = environ /\ github' = github)
                => /\ remote' = << >>
                   /\ result' =
                        [op |-> "list_runners_connected_to_github",
                         args |-> result'.args]
                        @@ list_runners_connected_to_github(
                               cache.value, result'.args.search_str)
      ]_vars

C17_Witness ==
    /\ ListedRunners
    /\ cache.kind = "set"
    /\ cache.value = << Str(TokenNotSet) >>
    /\ environ # ""
    /\ github # << >>
    /\ remote = << >>
    /\ result.kind = "return" /\ result.value = << >>

ListedStreams == result.op = "list_log_streams"

\* The streams of the pages from page k on
RECURSIVE AllStreams(_, _)
AllStreams(pages, k) ==
    IF k > Len(pages) THEN {}
    ELSE { pages[k][i] : i \in DOMAIN pages[k] } \cup AllStreams(pages, k + 1)

\* C15: a call of list_log_streams with both times given returns, for every
\* log group asked for that exists, exactly the streams of the group whose
\* lastEventTimestamp is in [start_time, end_time], both ends included,
\* whatever page they are on
C15_AllStreamsInWindow ==
    (ListedStreams /\ result.args.start_time.given /\ result.args.end_time.given)
        => /\ result.kind = "return"
           /\ \A g \in DOMAIN cloudwatch :
                { result.value[g][i] : i \in DOMAIN result.value[g] }
                    = { st \in AllStreams(cloudwatch[g], 1) :
                          /\ result.args.start_time.seconds * 1000
                                <= st.lastEventTimestamp
                          /\ st.lastEventTimestamp
                                <= result.args.end_time.seconds * 1000 }

\* A call with a context of the caller's makes no request to the directory
NoDescribe == Return(<< >>)
NoLookups == << >>

\* One session's queries, with a context of the caller's or without
NextQuery ==
    \/ \E response \in DescribeOutcomes({"i-1"}) :
         \E lookups \in Lookups(response), include_commands \in BOOLEAN :
            GenerateContext(response, lookups, include_commands)
    \/ \E user_message \in UserMessages, response \in DescribeOutcomes({"i-1"}),
          invoked \in InvokeOutcomes :
         \E lookups \in Lookups(response) :
            QueryClaude(user_message, NoContext, response, lookups, invoked)
    \/ \E user_message \in UserMessages, invoked \in InvokeOutcomes :
         /\ context.kind = "return"
         /\ QueryClaude(user_message, context, NoDescribe, NoLookups, invoked)

SpecQuery == Init /\ [][NextQuery]_vars

\* The outcomes that tell the paths of a call apart: a fetch that returns,
\* a model that replies and a model that is refused
FewFetchOutcomes == { f \in FetchOutcomes : ~IsRaise(f) /\ f.value.Status = "Failed" }
FewInvokeOutcomes ==
    { i \in InvokeOutcomes :
        \/ IsClientError(i)
        \/ ~IsRaise(i) /\ i.value.body.json /\ "content" \in DOMAIN i.value.body.value
                       /\ i.value.body.value.content # << >> }

\* One session: every operation of the ModelContextProtocol and the directory
NextAll ==
    \/ \E sent \in SendOutcomes, waited \in WaitOutcomes,
          fetched \in FewFetchOutcomes :
            RunCommandOnInstance("i-1", "uptime", sent, waited, fetched)
    \/ \E response \in DescribeOutcomes({"i-1"}) :
         \E lookups \in Lookups(response), include_commands \in BOOLEAN :
            GenerateContext(response, lookups, include_commands)
    \/ \E response \in DescribeOutcomes({"i-1"}) :
         \E lookups \in Lookups(response), ssm_only \in BOOLEAN :
            ListInstances(response, lookups, ssm_only)
    \/ \E user_message \in UserMessages, response \in DescribeOutcomes({"i-1"}),
          invoked \in FewInvokeOutcomes :
         \E lookups \in Lookups(response) :
            QueryClaude(user_message, NoContext, response, lookups, invoked)
    \/ \E user_message \in UserMessages, invoked \in FewInvokeOutcomes :
         /\ context.kind = "return"
         /\ QueryClaude(user_message, context, NoDescribe, NoLookups, invoked)

SpecAll == Init /\ [][NextAll]_vars

\* The server's runner queries while the token and the organization change
NextRunners ==
    \/ \E search_str \in SearchStrings, fault \in Faults :
            ListRunnersConnectedToGithub(search_str, fault)
    \/ \E token \in Environs : SetToken(token)
    \/ \E runners \in Organizations : RunnersChange(runners)

SpecRunners == Init /\ [][NextRunners]_vars

\* The server's log stream queries, whatever the streams of the log group
InitLogs == Started /\ cloudwatch \in LogServices

NextLogs ==
    \E start_time \in Times, end_time \in Times, log_groups \in LogGroupLists :
        ListLogStreams(start_time, end_time, log_groups)

SpecLogs == InitLogs /\ [][NextLogs]_vars

====
